---- MODULE Spec2Model ----
(***************************************************************************)
(* complott: the build orchestrator of src/complott/complott.py.           *)
(*                                                                         *)
(* Spec     the scheduler build_all over a registry of artifacts, run      *)
(*          MaxRuns times in succession on the same build folder, with     *)
(*          Fetch.build and PythonRecipe.build acting on the disk.          *)
(* SpecJobs one run of build_all under --num-jobs 1..MaxJobs, with the     *)
(*          call of an artifact's build and its return as separate steps.  *)
(* SpecUrl  normalize_url applied to the URLs a recipe.json can declare,    *)
(*          and to its own result.                                         *)
(* SpecLoad read_recipes applied to recipes folders of two recipes, and   *)
(*          the volumes PythonRecipe.build hands to a recipe's container.  *)
(* SpecCmp  the change detector left_files_changed(filecmp.dircmp(a, b))   *)
(*          applied to pairs of directory trees.                           *)
(***************************************************************************)
EXTENDS Integers, FiniteSets, Sequences, TLC

VARIABLES
    artifacts,             \* ids of the registry returned by read_recipes
    deps,                  \* recipe id -> ids of its declared dependencies
    override,              \* the --override flag of the current run
    netOK,                 \* fetch id -> whether its URL can be downloaded
    run,                   \* number of the current invocation of build_all
    pc,                    \* position in build_all
    passedout,             \* graph nodes already returned by get_ready()
    finished,              \* graph nodes marked done()
    ready,                 \* the tuple get_ready() returned, still to iterate
    failed_artifacts_ids,  \* build_all's failed_artifacts_ids
    invoked,               \* ids whose build() was called in this run
    raised,                \* ids whose build() raised in this run
    copied,                \* recipes whose source tree was copied in this run
    removed,               \* recipes whose build path was rmtree'd in this run
    sandboxed,             \* recipes whose container was run in this run
    nonzero_exit,          \* recipes whose container ended non-zero in this run
    downloaded,            \* fetches for which urlretrieve was called in this run
    build_tree,            \* recipe -> tree at its build path, or NoTree
    cache,                 \* fetch -> run that wrote its cache file, 0 if no file
    prev,                  \* what the previous run left behind
    log,                   \* warnings and errors build_all's logger has emitted
    num_jobs,              \* the --num-jobs option handed to build_all
    in_flight,             \* ids whose build() was called and has not returned
    wave,                  \* ids of the last get_ready() with no failed dependency
    peak,                  \* most builds in flight at once since the last get_ready()
    dep_url,               \* SpecUrl: the "url" a fetch dependency declares
    unsplit_fixed,         \* SpecUrl: urlunsplit keeps a //path apart from a netloc
    fetch_url,             \* SpecUrl: what normalize_url made of url
    again,                 \* SpecUrl: what normalize_url made of fetch_url
    recipes_folder,        \* SpecLoad: the versions.json and recipe.json files
    loaded,                \* SpecLoad: the dict read_recipes returned
    container_run,         \* SpecLoad: the recipe whose container is run, and its volumes
    cmp_left,              \* SpecCmp: the source tree
    cmp_right,             \* SpecCmp: the build tree
    cmp_result             \* SpecCmp: what left_files_changed returned

vars == <<artifacts, deps, override, netOK, run, pc, passedout, finished, ready,
          failed_artifacts_ids, invoked, raised, copied, removed, sandboxed,
          nonzero_exit, downloaded, build_tree, cache, prev,
          log, num_jobs, in_flight, wave, peak,
          dep_url, unsplit_fixed, fetch_url, again, recipes_folder, loaded,
          container_run,
          cmp_left, cmp_right, cmp_result>>

schedVars == <<artifacts, deps, override, netOK, run, pc, passedout, finished,
               ready, failed_artifacts_ids, invoked, raised, copied, removed,
               sandboxed, nonzero_exit, downloaded, build_tree, cache, prev,
               log, num_jobs, in_flight, wave, peak>>

jobVars == <<num_jobs, in_flight, wave, peak>>

schedVarsButPc ==
    <<artifacts, deps, override, netOK, run, passedout, finished, ready,
      failed_artifacts_ids, invoked, raised, copied, removed, sandboxed,
      nonzero_exit, downloaded, build_tree, cache, prev,
      log, num_jobs, in_flight, wave, peak>>

cmpVars == <<cmp_left, cmp_right, cmp_result>>

urlVars == <<dep_url, unsplit_fixed, fetch_url, again>>

loadVars == <<recipes_folder, loaded, container_run>>

-----------------------------------------------------------------------------
(* Bounds *)

\* number of successive invocations of build_all on the same build folder
MaxRuns == 2

\* largest number of dependencies a recipe.json declares
MaxDeps == 2

\* largest value given to --num-jobs
MaxJobs == 2

\* largest number of slashes a URL's path ends with
MaxSlashes == 2

\* largest number of versions a versions.json lists
MaxVersions == 2

\* largest number of dependencies of the recipe.json read by the loader
MaxFetches == 2

-----------------------------------------------------------------------------
(* Directory trees: a node is a regular file, with its content and its      *)
(* modification time, or a directory mapping names to nodes.                *)

NoEntries == [n \in {} |-> 0]

File(c, m) == [k |-> "f", c |-> c, m |-> m, e |-> NoEntries]

Dir(e) == [k |-> "d", c |-> "", m |-> 0, e |-> e]

NoTree == [k |-> "none", c |-> "", m |-> 0, e |-> NoEntries]

IsDir(t) == t.k = "d"

IsFile(t) == t.k = "f"

\* os.path.exists(build_path)
Exists(t) == t.k # "none"

Names(t) == DOMAIN t.e

\* st_size of a regular file
Size(f) == Len(f.c)

\* filecmp._sig: (type, size, mtime); the type is that of a regular file here
Sig(f) == <<Size(f), f.m>>

\* filecmp.cmp(f1, f2, shallow=True), as filecmp.cmpfiles calls it: equal
\* signatures make the files equal without their bytes being read
filecmp_cmp(f1, f2) ==
    IF Sig(f1) = Sig(f2) THEN TRUE
    ELSE IF Size(f1) # Size(f2) THEN FALSE
    ELSE f1.c = f2.c

\* filecmp.DEFAULT_IGNORES and dircmp's hide list
DEFAULT_IGNORES == {"RCS", "CVS", "tags", ".git", ".hg", ".bzr", "_darcs", "__pycache__"}

Hidden == {".", ".."}

\* dircmp.left_list / right_list: the names listed, filtered by hide + ignore
Listed(d) == Names(d) \ (Hidden \cup DEFAULT_IGNORES)

\* dircmp.left_only
left_only(a, b) == Listed(a) \ Listed(b)

\* dircmp.common
common(a, b) == Listed(a) \cap Listed(b)

\* dircmp.common_dirs: both are directories
common_dirs(a, b) == {n \in common(a, b) : IsDir(a.e[n]) /\ IsDir(b.e[n])}

\* dircmp.common_files: both are regular files (a file against a directory
\* goes to common_funny, which left_files_changed does not read)
common_files(a, b) == {n \in common(a, b) : IsFile(a.e[n]) /\ IsFile(b.e[n])}

\* dircmp.diff_files
diff_files(a, b) == {n \in common_files(a, b) : ~filecmp_cmp(a.e[n], b.e[n])}

\* a detector that also counts what is only in the build tree
RECURSIVE left_files_changed_symmetric(_, _)
left_files_changed_symmetric(a, b) ==
    \/ Listed(a) # Listed(b)
    \/ diff_files(a, b) # {}
    \/ \E n \in common_dirs(a, b) : left_files_changed_symmetric(a.e[n], b.e[n])

\* left_files_changed(filecmp.dircmp(a, b))
RECURSIVE left_files_changed(_, _)
left_files_changed(a, b) ==
    \/ left_only(a, b) # {}
    \/ diff_files(a, b) # {}
    \/ \E n \in common_dirs(a, b) : left_files_changed(a.e[n], b.e[n])

\* shutil.copytree(src, dst): copy2 keeps content and modification time
copytree(t) == t

\* the paths of the files and directories below a directory
RECURSIVE Paths(_)
Paths(t) ==
    IF ~IsDir(t) THEN {}
    ELSE UNION {{<<n>>} \cup {<<n>> \o p : p \in Paths(t.e[n])} : n \in Names(t)}

\* the node at a path below t, NoTree when there is none
RECURSIVE At(_, _)
At(t, p) ==
    IF p = <<>> THEN t
    ELSE IF IsDir(t) /\ Head(p) \in Names(t) THEN At(t.e[Head(p)], Tail(p))
    ELSE NoTree

-----------------------------------------------------------------------------
(* The registry: what read_recipes returns for a recipes folder.            *)

\* Fetch.id(): "Fetch:" + normalized url
Fetches == {"Fetch:http://h.io/u"}

\* Recipe.id(): "Recipe:" + name + "/" + version
Recipes == {"Recipe:a/1", "Recipe:b/1", "Recipe:c/1"}

\* RecipeDependency.artifact_id() of a build dependency that names a recipe
\* read_recipes did not register (no such folder, or a skipped version)
Unregistered == {"Recipe:m/1"}

Ids == Fetches \cup Recipes \cup Unregistered

\* the dependency lists read_recipes can hand to a recipe: fetch dependencies,
\* and build dependencies on any recipe name and version, its own included
DependencyLists == {S \in SUBSET Ids : Cardinality(S) <= MaxDeps}

\* read_recipes: a fetch is in the registry exactly when a registered recipe
\* declares it (register_fetch_dependency); build dependencies add nothing
\* (register_recipe_dependency); every recipe read is inserted at its id
read_recipes(d) == Recipes \cup {f \in Fetches : \E r \in Recipes : f \in d[r]}

\* isinstance(artifact, Recipe)
IsRecipe(id) == id \in Recipes

\* the version folder of a recipe under the recipes folder
generate_py == File("g", 1)

recipe_json == File("j", 1)

source_tree(r) ==
    IF r = "Recipe:a/1"
    THEN Dir(("generate.py" :> generate_py) @@ ("recipe.json" :> recipe_json)
             @@ ("data" :> Dir("in.csv" :> File("i", 1))))
    ELSE Dir(("generate.py" :> generate_py) @@ ("recipe.json" :> recipe_json))

-----------------------------------------------------------------------------
(* graphlib.TopologicalSorter, as compute_dependencies_graph fills it and   *)
(* build_all walks it.                                                      *)

\* topological_sorter.add(artifact.id(), dependency.artifact_id()) for every
\* dependency of every Recipe of the registry: a node's predecessors
Predecessors(n) == IF n \in artifacts /\ IsRecipe(n) THEN deps[n] ELSE {}

\* the nodes add() created: only ids that occur in some edge
compute_dependencies_graph ==
    UNION {{r} \cup deps[r] : r \in {x \in artifacts : IsRecipe(x) /\ deps[x] # {}}}

RECURSIVE Closure(_, _)
Closure(S, n) ==
    IF n = 0 THEN S
    ELSE Closure(S \cup UNION {Predecessors(x) : x \in S}, n - 1)

\* every id an artifact depends on, directly or through other recipes
TransitiveDeps(id) == Closure(Predecessors(id), Cardinality(Ids))

\* a sorter that only notices a recipe that depends on itself
HasSelfLoopOnly == \E n \in compute_dependencies_graph : n \in Predecessors(n)

\* prepare() raises CycleError when the graph has a cycle
HasCycle == \E n \in compute_dependencies_graph : n \in TransitiveDeps(n)

\* a sorter that hands out every node at once
get_ready_unordered == compute_dependencies_graph \ passedout

\* get_ready(): the nodes not yet passed out whose predecessors are all done
get_ready ==
    {n \in compute_dependencies_graph \ passedout : Predecessors(n) \subseteq finished}

\* is_active()
is_active == finished # passedout \/ get_ready # {}

-----------------------------------------------------------------------------
(* Artifact.build                                                           *)

\* exit statuses of the container: success, script error, another error
\* (python cannot open generate.py), memory limit kill
ExitStatuses == {0, 1, 2, 137}

\* PythonRecipe.build, the except clause: ContainerError is raised for any
\* non-zero status and re-raised only by the cases 1 and 137
ContainerRaises(status) == status \in {1, 137}

\* os.makedirs(data_path) when <build_path>/data does not exist
makedirs_data(t) ==
    IF "data" \in Names(t) THEN t
    ELSE [t EXCEPT !.e = ("data" :> Dir(NoEntries)) @@ t.e]

\* the container writes file n of /app/data, the one writable mount
WriteData(t, n) ==
    [t EXCEPT !.e = ("data" :> Dir((n :> File("o", 2)) @@ t.e["data"].e)) @@ t.e]

\* what the container can leave in <build_path>/data: its output, and
\* possibly a file that was copied there from the source tree, overwritten
SandboxWrites(t) ==
    LET out == WriteData(t, "out.txt") IN
    {out} \cup {WriteData(out, n) : n \in Names(t.e["data"])}

\* a build that ignores the override flag
SkipsUnchangedAlways(r, tree, ovr) ==
    Exists(tree) /\ ~left_files_changed(source_tree(r), tree)

\* a build that also runs when a dependency was built earlier in the run
SkipsUnchangedUnlessDependencyBuilt(r, tree, ovr) ==
    /\ Exists(tree) /\ ~left_files_changed(source_tree(r), tree) /\ ~ovr
    /\ deps[r] \cap (sandboxed \cup downloaded) = {}

\* PythonRecipe.build: the test that returns early, "recipe did not changed"
SkipsUnchanged(r, tree, ovr) ==
    Exists(tree) /\ ~left_files_changed(source_tree(r), tree) /\ ~ovr

\* PythonRecipe.build on the tree at the recipe's build path: the outcomes
PythonRecipe_build(r, tree, ovr) ==
    IF SkipsUnchanged(r, tree, ovr)
    THEN {[tree |-> tree, raises |-> FALSE, copied |-> FALSE, removed |-> FALSE,
           ran |-> FALSE, status |-> 0]}
    ELSE {[tree |-> w, raises |-> ContainerRaises(s), copied |-> TRUE,
           removed |-> Exists(tree), ran |-> TRUE, status |-> s] :
             s \in ExitStatuses,
             w \in SandboxWrites(makedirs_data(copytree(source_tree(r))))}

\* a fetch that never finds its cache file
CacheHitNever(c, ovr) == FALSE

\* Fetch.build: os.path.exists(cache_file_path) and not override
CacheHit(c, ovr) == c # 0 /\ ~ovr

\* a handler that leaves the file of a failed download where it is
RemovePartialNever(c) == c

\* Fetch.build, the except clause: os.remove(cache_file_path) if it exists
RemovePartial(c) == 0

\* what a failed urlretrieve leaves at the cache path: the file that was
\* there (none, or the one of an earlier run), or a partial new file
FailedDownloadLeaves(c, now) == {c, now}

\* Fetch.build on cache file c (0: no file): the outcomes
Fetch_build(c, ovr, ok, now) ==
    IF CacheHit(c, ovr)
    THEN {[cache |-> c, raises |-> FALSE, downloaded |-> FALSE]}
    ELSE IF ok
    THEN {[cache |-> now, raises |-> FALSE, downloaded |-> TRUE]}
    ELSE {[cache |-> RemovePartial(p), raises |-> TRUE, downloaded |-> TRUE] :
            p \in FailedDownloadLeaves(c, now)}

-----------------------------------------------------------------------------
(* build_all, run after run on one build folder                             *)

NoRun == [pc |-> "none", override |-> FALSE, build_tree |-> [r \in Recipes |-> NoTree],
          cache |-> [f \in Fetches |-> 0], raised |-> {}, failed |-> {},
          netOK |-> [f \in Fetches |-> TRUE]]

InitCmpIdle ==
    /\ cmp_left = NoTree
    /\ cmp_right = NoTree
    /\ cmp_result = "idle"

\* normalize_url has not been called
NoResult == [raises |-> FALSE, url |-> <<>>]

InitUrlIdle ==
    /\ dep_url = <<>>
    /\ unsplit_fixed = FALSE
    /\ fetch_url = NoResult
    /\ again = NoResult

\* no container has been run
NoContainer == [recipe |-> <<>>, volumes |-> [k \in {} |-> 0]]

InitLoadIdle ==
    /\ recipes_folder = [listdir |-> <<>>]
    /\ loaded = [k \in {} |-> 0]
    /\ container_run = NoContainer

\* a fresh build folder, and the registry and the --override flag of cli.build
InitBuild ==
    /\ deps \in [Recipes -> DependencyLists]
    /\ artifacts = read_recipes(deps)
    /\ override \in BOOLEAN
    /\ netOK \in [Fetches -> BOOLEAN]
    /\ run = 1
    /\ pc = "prepare"
    /\ passedout = {}
    /\ finished = {}
    /\ ready = {}
    /\ failed_artifacts_ids = {}
    /\ invoked = {}
    /\ raised = {}
    /\ copied = {}
    /\ removed = {}
    /\ sandboxed = {}
    /\ nonzero_exit = {}
    /\ downloaded = {}
    /\ build_tree = [r \in Recipes |-> NoTree]
    /\ cache = [f \in Fetches |-> 0]
    /\ prev = NoRun
    /\ log = {}
    /\ in_flight = {}
    /\ wave = {}
    /\ peak = 0
    /\ InitCmpIdle
    /\ InitUrlIdle
    /\ InitLoadIdle

\* cli.build without --num-jobs: the option's default
Init == InitBuild /\ num_jobs = 1

\* cli.build with --num-jobs n
InitJobs == InitBuild /\ num_jobs \in 1..MaxJobs

registryVars == <<artifacts, deps, netOK>>

diskVars == <<build_tree, cache>>

logVars == <<invoked, raised, copied, removed, sandboxed, nonzero_exit, downloaded>>

\* a scheduler that builds whatever its dependencies did
DependencyFailedNever(id) == FALSE

\* a scheduler that gives up on every recipe once anything has failed
DependencyFailedAny(id) == IsRecipe(id) /\ failed_artifacts_ids # {}

\* the loop over artifact.dependencies: some dependency is in failed_artifacts_ids
DependencyFailed(id) ==
    IsRecipe(id) /\ deps[id] \cap failed_artifacts_ids # {}

\* dependencies_graph.prepare(): CycleError leaves build_all
Prepare ==
    /\ pc = "prepare"
    /\ pc' = IF HasCycle THEN "CycleError" ELSE "while"
    /\ UNCHANGED <<registryVars, override, run, passedout, finished, ready,
                   failed_artifacts_ids, logVars, diskVars, prev, log, jobVars,
                   cmpVars, urlVars, loadVars>>

\* while dependencies_graph.is_active(): for artifact_id in get_ready()
GetReady ==
    /\ pc = "while"
    /\ ready = {}
    /\ is_active
    /\ ready' = get_ready
    /\ passedout' = passedout \cup get_ready
    /\ wave' = {id \in get_ready \cap artifacts : ~DependencyFailed(id)}
    /\ peak' = 0
    /\ UNCHANGED <<registryVars, override, run, pc, finished,
                   failed_artifacts_ids, logVars, diskVars, prev, log,
                   num_jobs, in_flight, cmpVars, urlVars, loadVars>>

\* artifacts[artifact_id] for an id that is no key of the registry
LookupKeyError(id) ==
    /\ pc = "while"
    /\ id \in ready
    /\ id \notin artifacts
    /\ in_flight = {}
    /\ pc' = "KeyError"
    /\ UNCHANGED <<registryVars, override, run, passedout, finished, ready,
                   failed_artifacts_ids, logVars, diskVars, prev, log, jobVars,
                   cmpVars, urlVars, loadVars>>

\* logger.warning(f"Skipped '{artifact_id}', dependency '...' failed.")
Skipped(id) == [level |-> "warning", id |-> id, text |-> "Skipped, dependency failed"]

\* logger.error(f"While building '{artifact_id}': ...")
WhileBuilding(id) == [level |-> "error", id |-> id, text |-> "While building"]

\* except Exception: logger.error(...)
LogFailure(id, raises) == IF raises THEN log \cup {WhileBuilding(id)} ELSE log

Max(a, b) == IF a >= b THEN a ELSE b

Min(a, b) == IF a <= b THEN a ELSE b

\* the for loop calls artifact.build(...) and waits for it to return
Enter(id) ==
    /\ pc = "while"
    /\ id \in ready
    /\ id \in artifacts
    /\ ~DependencyFailed(id)
    /\ in_flight = {}
    /\ in_flight' = {id}
    /\ peak' = Max(peak, Cardinality(in_flight'))
    /\ UNCHANGED <<registryVars, override, run, pc, passedout, finished, ready,
                   failed_artifacts_ids, logVars, diskVars, prev, log,
                   num_jobs, wave, cmpVars, urlVars, loadVars>>

\* a scheduler that clears the build path of a recipe it skips
SkipDependencyFailedAndClean(id) ==
    /\ pc = "while"
    /\ id \in ready
    /\ id \in artifacts
    /\ DependencyFailed(id)
    /\ in_flight = {}
    /\ log' = log \cup {Skipped(id)}
    /\ failed_artifacts_ids' = failed_artifacts_ids \cup {id}
    /\ finished' = finished \cup {id}
    /\ ready' = ready \ {id}
    /\ build_tree' = [build_tree EXCEPT ![id] = NoTree]
    /\ removed' = removed \cup {id}
    /\ UNCHANGED <<registryVars, override, run, pc, passedout, invoked, raised,
                   copied, sandboxed, nonzero_exit, downloaded, cache, prev,
                   jobVars, cmpVars, urlVars, loadVars>>

\* the body of the loop for a recipe with a failed dependency
SkipDependencyFailed(id) ==
    /\ pc = "while"
    /\ id \in ready
    /\ id \in artifacts
    /\ DependencyFailed(id)
    /\ in_flight = {}
    /\ log' = log \cup {Skipped(id)}
    /\ failed_artifacts_ids' = failed_artifacts_ids \cup {id}
    /\ finished' = finished \cup {id}
    /\ ready' = ready \ {id}
    /\ UNCHANGED <<registryVars, override, run, pc, passedout,
                   logVars, diskVars, prev, jobVars, cmpVars, urlVars, loadVars>>

\* a scheduler that drops the exception of a build
RecordFailureNever(id, raises) == failed_artifacts_ids

\* except Exception: failed_artifacts_ids.add(artifact_id)
RecordFailure(id, raises) ==
    IF raises THEN failed_artifacts_ids \cup {id} ELSE failed_artifacts_ids

\* the body of the loop for a Fetch: build, record, done
BuildFetch(id) ==
    /\ pc = "while"
    /\ id \in ready
    /\ id \in artifacts
    /\ ~IsRecipe(id)
    /\ in_flight \subseteq {id}
    /\ \E o \in Fetch_build(cache[id], override, netOK[id], run) :
        /\ cache' = [cache EXCEPT ![id] = o.cache]
        /\ invoked' = invoked \cup {id}
        /\ raised' = IF o.raises THEN raised \cup {id} ELSE raised
        /\ downloaded' = IF o.downloaded THEN downloaded \cup {id} ELSE downloaded
        /\ failed_artifacts_ids' = RecordFailure(id, o.raises)
        /\ log' = LogFailure(id, o.raises)
    /\ in_flight' = {}
    /\ peak' = Max(peak, Cardinality(in_flight \cup {id}))
    /\ finished' = finished \cup {id}
    /\ ready' = ready \ {id}
    /\ UNCHANGED <<registryVars, override, run, pc, passedout, copied, removed,
                   sandboxed, nonzero_exit, build_tree, prev, num_jobs, wave,
                   cmpVars, urlVars, loadVars>>

\* the body of the loop for a Recipe none of whose dependencies failed
BuildRecipe(id) ==
    /\ pc = "while"
    /\ id \in ready
    /\ id \in artifacts
    /\ IsRecipe(id)
    /\ ~DependencyFailed(id)
    /\ in_flight \subseteq {id}
    /\ \E o \in PythonRecipe_build(id, build_tree[id], override) :
        /\ build_tree' = [build_tree EXCEPT ![id] = o.tree]
        /\ invoked' = invoked \cup {id}
        /\ raised' = IF o.raises THEN raised \cup {id} ELSE raised
        /\ copied' = IF o.copied THEN copied \cup {id} ELSE copied
        /\ removed' = IF o.removed THEN removed \cup {id} ELSE removed
        /\ sandboxed' = IF o.ran THEN sandboxed \cup {id} ELSE sandboxed
        /\ nonzero_exit' =
             IF o.ran /\ o.status # 0 THEN nonzero_exit \cup {id} ELSE nonzero_exit
        /\ failed_artifacts_ids' = RecordFailure(id, o.raises)
        /\ log' = LogFailure(id, o.raises)
    /\ in_flight' = {}
    /\ peak' = Max(peak, Cardinality(in_flight \cup {id}))
    /\ finished' = finished \cup {id}
    /\ ready' = ready \ {id}
    /\ UNCHANGED <<registryVars, override, run, pc, passedout, downloaded,
                   cache, prev, num_jobs, wave, cmpVars, urlVars, loadVars>>

\* is_active() is false: build_all returns
Return ==
    /\ pc = "while"
    /\ ready = {}
    /\ ~is_active
    /\ pc' = "done"
    /\ UNCHANGED <<registryVars, override, run, passedout, finished, ready,
                   failed_artifacts_ids, logVars, diskVars, prev, log, jobVars,
                   cmpVars, urlVars, loadVars>>

\* the command is run again on the same recipes folder and build folder;
\* a server that answered in the run before need not answer in this one
NextRun ==
    /\ pc \in {"done", "CycleError", "KeyError"}
    /\ run < MaxRuns
    /\ run' = run + 1
    /\ override' \in BOOLEAN
    /\ netOK' \in {ok \in [Fetches -> BOOLEAN] : \A f \in Fetches \ artifacts : ok[f] = netOK[f]}
    /\ prev' = [pc |-> pc, override |-> override, build_tree |-> build_tree,
                cache |-> cache, raised |-> raised, failed |-> failed_artifacts_ids,
                netOK |-> netOK]
    /\ pc' = "prepare"
    /\ passedout' = {}
    /\ finished' = {}
    /\ ready' = {}
    /\ failed_artifacts_ids' = {}
    /\ invoked' = {}
    /\ raised' = {}
    /\ copied' = {}
    /\ removed' = {}
    /\ sandboxed' = {}
    /\ nonzero_exit' = {}
    /\ downloaded' = {}
    /\ log' = {}
    /\ in_flight' = {}
    /\ wave' = {}
    /\ peak' = 0
    /\ UNCHANGED <<artifacts, deps, diskVars, num_jobs, cmpVars, urlVars, loadVars>>

Next ==
    \/ Prepare
    \/ GetReady
    \/ \E id \in Ids : LookupKeyError(id)
    \/ \E id \in Ids : SkipDependencyFailed(id)
    \/ \E id \in Ids : BuildFetch(id)
    \/ \E id \in Ids : BuildRecipe(id)
    \/ Return
    \/ NextRun

Spec == Init /\ [][Next]_vars

\* the build() of a Fetch that was called returns or raises
FetchReturns(id) == in_flight = {id} /\ BuildFetch(id)

\* the build() of a Recipe that was called returns or raises
RecipeReturns(id) == in_flight = {id} /\ BuildRecipe(id)

\* one run of build_all, the call of build() and its return as separate steps
NextJobs ==
    \/ Prepare
    \/ GetReady
    \/ \E id \in Ids : LookupKeyError(id)
    \/ \E id \in Ids : SkipDependencyFailed(id)
    \/ \E id \in Ids : Enter(id)
    \/ \E id \in Ids : FetchReturns(id)
    \/ \E id \in Ids : RecipeReturns(id)
    \/ Return

SpecJobs == InitJobs /\ [][NextJobs]_vars

-----------------------------------------------------------------------------
(* The change detector on its own: pairs of a source tree and a build tree  *)

CmpNames == {"a", ".git"}

\* same size and time, same size at another time, another size
CmpFiles == {File("x", 1), File("y", 1), File("y", 2), File("zz", 1)}

EntriesOver(nodes) == UNION {[S -> nodes] : S \in SUBSET CmpNames}

CmpNodes == CmpFiles \cup {Dir(e) : e \in EntriesOver(CmpFiles)}

CmpTrees == {Dir(e) : e \in EntriesOver(CmpNodes)}

\* no run of build_all: an empty recipes folder and a fresh build folder
InitBuildIdle ==
    /\ deps = [r \in Recipes |-> {}]
    /\ artifacts = read_recipes(deps)
    /\ override = FALSE
    /\ netOK = [f \in Fetches |-> TRUE]
    /\ run = 1
    /\ passedout = {}
    /\ finished = {}
    /\ ready = {}
    /\ failed_artifacts_ids = {}
    /\ invoked = {}
    /\ raised = {}
    /\ copied = {}
    /\ removed = {}
    /\ sandboxed = {}
    /\ nonzero_exit = {}
    /\ downloaded = {}
    /\ build_tree = [r \in Recipes |-> NoTree]
    /\ cache = [f \in Fetches |-> 0]
    /\ prev = NoRun
    /\ log = {}
    /\ num_jobs = 1
    /\ in_flight = {}
    /\ wave = {}
    /\ peak = 0

InitCmp ==
    /\ cmp_left \in CmpTrees
    /\ cmp_right \in CmpTrees
    /\ cmp_result = "idle"
    /\ pc = "build"
    /\ InitBuildIdle
    /\ InitUrlIdle
    /\ InitLoadIdle

\* PythonRecipe.build evaluates left_files_changed(filecmp.dircmp(source, build))
Compare ==
    /\ cmp_result = "idle"
    /\ cmp_result' = IF left_files_changed(cmp_left, cmp_right)
                     THEN "changed" ELSE "unchanged"
    /\ UNCHANGED <<cmp_left, cmp_right, schedVars, urlVars, loadVars>>

NextCmp == Compare

SpecCmp == InitCmp /\ [][NextCmp]_vars

-----------------------------------------------------------------------------
(* URLs: a string is a sequence of characters, and normalize_url is         *)
(* urllib.parse.urlparse, the rewriting of the components, and              *)
(* urllib.parse.urlunparse.                                                 *)

\* the printable characters, chr(32) to chr(126), in this order; chr(96),
\* the grave accent, is written by its name
ASCII ==
    <<" ", "!", "\"", "#", "$", "%", "&", "'", "(", ")", "*", "+", ",",
      "-", ".", "/", "0", "1", "2", "3", "4", "5", "6", "7", "8", "9", ":",
      ";", "<", "=", ">", "?", "@", "A", "B", "C", "D", "E", "F", "G", "H",
      "I", "J", "K", "L", "M", "N", "O", "P", "Q", "R", "S", "T", "U", "V",
      "W", "X", "Y", "Z", "[", "\\", "]", "^", "_", "grave", "a", "b", "c",
      "d", "e", "f", "g", "h", "i", "j", "k", "l", "m", "n", "o", "p", "q",
      "r", "s", "t", "u", "v", "w", "x", "y", "z", "{", "|", "}", "~">>

\* character -> code point
Ord == [c \in {ASCII[i] : i \in 1..Len(ASCII)} |->
          31 + CHOOSE i \in 1..Len(ASCII) : ASCII[i] = c]

ord(c) == Ord[c]

chr(n) == ASCII[n - 31]

isupper(c) == ord(c) >= ord("A") /\ ord(c) <= ord("Z")

isalpha(c) == isupper(c) \/ (ord(c) >= ord("a") /\ ord(c) <= ord("z"))

isdigit(c) == ord(c) >= ord("0") /\ ord(c) <= ord("9")

isalnum(c) == isalpha(c) \/ isdigit(c)

\* str.lower()
lower(s) == [i \in 1..Len(s) |->
               IF isupper(s[i]) THEN chr(ord(s[i]) + (ord("a") - ord("A"))) ELSE s[i]]

Take(s, n) == SubSeq(s, 1, n)

Drop(s, n) == SubSeq(s, n + 1, Len(s))

\* str.find(c) counted from 1: 0 when c does not occur
find(s, c) ==
    IF \E i \in 1..Len(s) : s[i] = c
    THEN CHOOSE i \in 1..Len(s) : s[i] = c /\ \A k \in 1..(i - 1) : s[k] # c
    ELSE 0

\* str.rfind(c) counted from 1: 0 when c does not occur
rfind(s, c) ==
    IF \E i \in 1..Len(s) : s[i] = c
    THEN CHOOSE i \in 1..Len(s) : s[i] = c /\ \A k \in (i + 1)..Len(s) : s[k] # c
    ELSE 0

\* str.partition(c)[0] and [2]
Before(s, c) == IF find(s, c) = 0 THEN s ELSE Take(s, find(s, c) - 1)

After(s, c) == IF find(s, c) = 0 THEN <<>> ELSE Drop(s, find(s, c))

\* str.rstrip(c)
RECURSIVE rstrip(_, _)
rstrip(s, c) ==
    IF s # <<>> /\ s[Len(s)] = c THEN rstrip(Take(s, Len(s) - 1), c) ELSE s

\* str.split(c)
RECURSIVE split(_, _)
split(s, c) ==
    IF find(s, c) = 0 THEN <<s>> ELSE <<Before(s, c)>> \o split(After(s, c), c)

\* c.join(parts)
RECURSIVE join(_, _)
join(parts, c) ==
    IF parts = <<>> THEN <<>>
    ELSE IF Len(parts) = 1 THEN parts[1]
    ELSE parts[1] \o <<c>> \o join(Tail(parts), c)

\* int(s) of a string of digits
RECURSIVE int(_)
int(s) ==
    IF s = <<>> THEN 0
    ELSE 10 * int(Take(s, Len(s) - 1)) + (ord(s[Len(s)]) - ord("0"))

\* str(n) of a natural number
RECURSIVE str(_)
str(n) ==
    IF n < 10 THEN <<chr(ord("0") + n)>>
    ELSE str(n \div 10) \o <<chr(ord("0") + (n % 10))>>

\* s < t for str: by code points, a proper prefix first
RECURSIVE str_lt(_, _)
str_lt(s, t) ==
    IF t = <<>> THEN FALSE
    ELSE IF s = <<>> THEN TRUE
    ELSE IF s[1] # t[1] THEN ord(s[1]) < ord(t[1])
    ELSE str_lt(Tail(s), Tail(t))

ishex(c) == isdigit(c) \/ c \in {"a", "b", "c", "d", "e", "f", "A", "B", "C", "D", "E", "F"}

hexval(c) ==
    IF isdigit(c) THEN ord(c) - ord("0")
    ELSE IF isupper(c) THEN ord(c) - ord("A") + 10
    ELSE ord(c) - ord("a") + 10

hexdigit(n) == IF n < 10 THEN chr(ord("0") + n) ELSE chr(ord("A") + (n - 10))

\* urllib.parse.unquote on escapes of printable characters: a % that two
\* hexadecimal digits do not follow stays
RECURSIVE unquote(_)
unquote(s) ==
    IF s = <<>> THEN <<>>
    ELSE IF /\ s[1] = "%"
            /\ Len(s) >= 3
            /\ ishex(s[2])
            /\ ishex(s[3])
            /\ 16 * hexval(s[2]) + hexval(s[3]) \in 32..126
         THEN <<chr(16 * hexval(s[2]) + hexval(s[3]))>> \o unquote(Drop(s, 3))
         ELSE <<s[1]>> \o unquote(Tail(s))

\* urllib.parse.quote_plus: letters, digits and _.-~ stay, a space becomes +
RECURSIVE quote_plus(_)
quote_plus(s) ==
    IF s = <<>> THEN <<>>
    ELSE (IF isalnum(s[1]) \/ s[1] \in {"_", ".", "-", "~"} THEN <<s[1]>>
          ELSE IF s[1] = " " THEN <<"+">>
          ELSE <<"%", hexdigit(ord(s[1]) \div 16), hexdigit(ord(s[1]) % 16)>>)
         \o quote_plus(Tail(s))

plus_to_space(s) == [i \in 1..Len(s) |-> IF s[i] = "+" THEN " " ELSE s[i]]

\* urllib.parse.parse_qsl(qs): fields without = or with a blank value are dropped
RECURSIVE parse_fields(_)
parse_fields(fields) ==
    IF fields = <<>> THEN <<>>
    ELSE LET nv == fields[1]
         IN (IF find(nv, "=") = 0 \/ After(nv, "=") = <<>> THEN <<>>
             ELSE << <<unquote(plus_to_space(Before(nv, "="))),
                       unquote(plus_to_space(After(nv, "=")))>> >>)
            \o parse_fields(Tail(fields))

parse_qsl(qs) == IF qs = <<>> THEN <<>> ELSE parse_fields(split(qs, "&"))

\* the order of sorted() on (name, value) tuples
pair_lt(p, q) == str_lt(p[1], q[1]) \/ (p[1] = q[1] /\ str_lt(p[2], q[2]))

sorted(pairs) == SortSeq(pairs, pair_lt)

\* urllib.parse.urlencode(pairs)
urlencode(pairs) ==
    join([i \in 1..Len(pairs) |->
            quote_plus(pairs[i][1]) \o <<"=">> \o quote_plus(pairs[i][2])], "&")

\* urlsplit finds a scheme: letters, digits and +-. after a letter, up to
\* the first colon
has_scheme(url) ==
    /\ find(url, ":") > 1
    /\ isalpha(url[1])
    /\ \A k \in 1..(find(url, ":") - 1) : isalnum(url[k]) \/ url[k] \in {"+", "-", "."}

has_netloc(u) == Len(u) >= 2 /\ u[1] = "/" /\ u[2] = "/"

\* _splitnetloc: the first of / ? # after the two slashes, or the end
netloc_end(u) ==
    LET ends == {k \in 3..Len(u) : u[k] \in {"/", "?", "#"}}
    IN IF ends = {} THEN Len(u) + 1 ELSE CHOOSE k \in ends : \A j \in ends : k <= j

\* urlsplit: the fragment is cut off first, then the query
urlsplit_path(scheme, netloc, u) ==
    [scheme |-> scheme, netloc |-> netloc, path |-> Before(Before(u, "#"), "?"),
     query |-> After(Before(u, "#"), "?"), fragment |-> After(u, "#")]

\* urlsplit of what follows the scheme
urlsplit_netloc(scheme, u) ==
    IF has_netloc(u)
    THEN urlsplit_path(scheme, SubSeq(u, 3, netloc_end(u) - 1), Drop(u, netloc_end(u) - 1))
    ELSE urlsplit_path(scheme, <<>>, u)

\* urllib.parse.urlparse(url) for a URL without ';': scheme, netloc, path,
\* query and fragment
urlparse(url) ==
    IF has_scheme(url)
    THEN urlsplit_netloc(lower(Take(url, find(url, ":") - 1)), Drop(url, find(url, ":")))
    ELSE urlsplit_netloc(<<>>, url)

\* ParseResult._hostinfo: what follows the last @, split at its first colon
hostinfo(netloc) ==
    LET at == rfind(netloc, "@")
        hp == Drop(netloc, at)
    IN [hostname |-> Before(hp, ":"), port |-> After(hp, ":")]

\* ParseResult.port raises ValueError
port_raises(netloc) ==
    LET p == hostinfo(netloc).port
    IN p # <<>> /\ ((\E k \in 1..Len(p) : ~isdigit(p[k])) \/ int(p) > 65535)

\* urllib.parse.urlunparse of (scheme, netloc, path, "", query, ""); fixed
\* tells the urlunsplit that keeps a path starting with // apart from a netloc
urlunparse(scheme, netloc, path, query, fixed) ==
    LET slashed == IF path # <<>> /\ path[1] # "/" THEN <<"/">> \o path ELSE path
        two == Len(path) >= 2 /\ path[1] = "/" /\ path[2] = "/"
        u1 == IF netloc # <<>> THEN <<"/", "/">> \o netloc \o slashed
              ELSE IF two THEN (IF fixed THEN <<"/", "/">> \o path ELSE path)
              ELSE IF scheme # <<>> /\ (fixed => (path = <<>> \/ path[1] = "/"))
                   THEN <<"/", "/">> \o slashed
              ELSE path
        u2 == IF scheme # <<>> THEN scheme \o <<":">> \o u1 ELSE u1
    IN IF query # <<>> THEN u2 \o <<"?">> \o query ELSE u2

\* ports that normalize_url leaves out
DroppedPorts == {80, 443}

\* netloc = hostname.lower(), and ":port" unless the port is 0 or dropped
normalized_netloc(hi) ==
    IF int(hi.port) # 0 /\ int(hi.port) \notin DroppedPorts
    THEN lower(hi.hostname) \o <<":">> \o str(int(hi.port))
    ELSE lower(hi.hostname)

\* normalize_url after urlparse
normalize_parsed(parsed, fixed) ==
    IF port_raises(parsed.netloc) THEN [raises |-> TRUE, url |-> <<>>]
    ELSE [raises |-> FALSE,
          url |-> urlunparse(lower(parsed.scheme),
                             normalized_netloc(hostinfo(parsed.netloc)),
                             rstrip(parsed.path, "/"),
                             urlencode(sorted(parse_qsl(parsed.query))),
                             fixed)]

\* normalize_url(url): the normalized URL, or raises when the port is no number
normalize_url(url, fixed) == normalize_parsed(urlparse(url), fixed)

\* the character classes of the pattern of the fetch dependency's "url"
HostClass(c) == isalnum(c) \/ c \in {"-", "@", ":", "%", ".", "_", "+", "~", "#", "="}

TldClass(c) == isalnum(c) \/ c \in {"(", ")"}

RestClass(c) ==
    isalnum(c) \/ c \in {"-", "(", ")", "@", ":", "%", "_", "+", ".", "~", "#", "?",
                         "&", "/", "="}

\* [HostClass]{1,256}\.[TldClass]{1,6}[RestClass]*$ matches the whole of r
MatchesHost(r) ==
    \E i \in 1..Len(r) : \E j \in 1..6 :
        /\ i <= 256
        /\ i + 1 + j <= Len(r)
        /\ \A k \in 1..i : HostClass(r[k])
        /\ r[i + 1] = "."
        /\ \A k \in (i + 2)..(i + 1 + j) : TldClass(r[k])
        /\ \A k \in (i + 2 + j)..Len(r) : RestClass(r[k])

startswith(s, p) == Len(s) >= Len(p) /\ Take(s, Len(p)) = p

\* jsonschema accepts the "url" of a fetch dependency: the pattern
\* ^https?://(?:www\.)?[HostClass]{1,256}\.[TldClass]{1,6}(?:[RestClass]*)$
SchemaAccepts(u) ==
    \E p \in {<<"h", "t", "t", "p", ":", "/", "/">>,
              <<"h", "t", "t", "p", "s", ":", "/", "/">>} :
        /\ startswith(u, p)
        /\ LET r == Drop(u, Len(p))
           IN \/ MatchesHost(r)
              \/ startswith(r, <<"w", "w", "w", ".">>) /\ MatchesHost(Drop(r, 4))

\* the parts URLs are put together from
Schemes ==
    {<<"h", "t", "t", "p">>,
     <<"h", "t", "t", "p", "s">>,
     <<"f", "t", "p">>}

UserInfos ==
    {<<>>,
     <<"x", ".", "y", "@">>}

Hosts ==
    {<<>>,
     <<"h", ".", "i", "o">>,
     <<"H", ".", "i", "o">>,
     <<"l", "o", "c", "a", "l", "h", "o", "s", "t">>}

Ports ==
    {<<>>,
     <<":", "8", "0">>,
     <<":", "4", "4", "3">>,
     <<":", "8", "0", "8", "0">>,
     <<":", "8", "o">>}

Stems ==
    {<<>>,
     <<"/", "a">>,
     <<"/", "/", "P">>}

RECURSIVE Slashes(_)
Slashes(n) == IF n = 0 THEN <<>> ELSE <<"/">> \o Slashes(n - 1)

UrlPaths == {s \o Slashes(n) : s \in Stems, n \in 0..MaxSlashes}

Queries ==
    {<<>>,
     <<"?">>,
     <<"?", "b", "=", "2", "&", "a", "=", "1">>,
     <<"?", "a", "=", "%", "4", "1", "%", "2", "F", "&", "c", "=", "&", "b", "=", "+", "x">>}

Fragments ==
    {<<>>,
     <<"#", "f">>}

Candidates ==
    {s \o <<":", "/", "/">> \o ui \o h \o p \o path \o q \o f :
        s \in Schemes, ui \in UserInfos, h \in Hosts, p \in Ports,
        path \in UrlPaths, q \in Queries, f \in Fragments}

\* the URLs a recipe.json can declare
AcceptedUrls == {u \in Candidates : SchemaAccepts(u)}

\* the "url" of a fetch dependency that passed the schema, and the urllib of
\* the interpreter
InitUrl ==
    /\ dep_url \in AcceptedUrls
    /\ unsplit_fixed \in BOOLEAN
    /\ fetch_url = NoResult
    /\ again = NoResult
    /\ pc = "register"
    /\ InitBuildIdle
    /\ InitCmpIdle
    /\ InitLoadIdle

\* Fetch.__init__: self.url = normalize_url(dependency_json["url"])
Normalize ==
    /\ pc = "register"
    /\ fetch_url' = normalize_url(dep_url, unsplit_fixed)
    /\ pc' = IF fetch_url'.raises THEN "ValueError" ELSE "Fetch"
    /\ UNCHANGED <<dep_url, unsplit_fixed, again, schedVarsButPc, cmpVars, loadVars>>

\* the url of the Fetch handed to normalize_url once more
NormalizeAgain ==
    /\ pc = "Fetch"
    /\ again' = normalize_url(fetch_url.url, unsplit_fixed)
    /\ pc' = "again"
    /\ UNCHANGED <<dep_url, unsplit_fixed, fetch_url, schedVarsButPc, cmpVars, loadVars>>

NextUrl == Normalize \/ NormalizeAgain

SpecUrl == InitUrl /\ [][NextUrl]_vars

-----------------------------------------------------------------------------
(* The loader: read_recipes on a recipes folder, with the objects it        *)
(* creates. Names, ids and paths are strings, objects carry the number of   *)
(* the constructor call that made them.                                     *)

\* the "url" values the recipe.json files of the folder declare
DeclaredUrls ==
    {<<"h", "t", "t", "p", ":", "/", "/", "H", ".", "i", "o", "/", "a", "/">>,
     <<"h", "t", "t", "p", ":", "/", "/", "h", ".", "i", "o", ":", "8", "0", "/", "a">>,
     <<"h", "t", "t", "p", "s", ":", "/", "/", "h", ".", "i", "o", "/", "a", "?", "b", "=", "2", "&", "a", "=", "1">>}

\* a "url" the schema accepts and whose port is no number
BadPortUrl == <<"h", "t", "t", "p", ":", "/", "/", "h", ".", "i", "o", ":", "8", "o", "/", "a">>

\* normalize_url on the declared URLs, computed once
Normalized ==
    [u \in DeclaredUrls \cup {BadPortUrl}, fixed \in BOOLEAN |-> normalize_url(u, fixed)]

\* hashlib.sha1(url).hexdigest()[:24], taken to be free of collisions
sha1(s) == <<"s", "h", "a", "1", "(">> \o s \o <<")">>

\* Fetch.__init__, the n-th object made
Fetch(dependency_json, n, fixed) ==
    [kind |-> "Fetch", obj |-> n, url |-> Normalized[dependency_json.url, fixed].url]

\* Recipe.__init__, the n-th object made
Recipe(recipe_name, recipe_version, version_json, dependencies, n) ==
    [kind |-> "Recipe", obj |-> n, name |-> recipe_name, version |-> recipe_version,
     version_source_folder |-> version_json.folder,
     version_build_folder |->
         IF "folder_alias" \in DOMAIN version_json
         THEN version_json.folder_alias ELSE version_json.folder,
     dependencies |-> dependencies]

\* Fetch.id and Recipe.id
Id(artifact) ==
    IF artifact.kind = "Fetch"
    THEN <<"F", "e", "t", "c", "h", ":">> \o artifact.url
    ELSE <<"R", "e", "c", "i", "p", "e", ":">> \o artifact.name \o <<"/">> \o artifact.version

\* Fetch.get_build_path and Recipe.get_build_path, below the build folder
get_build_path(artifact) ==
    IF artifact.kind = "Fetch"
    THEN <<"f", "e", "t", "c", "h", "_", "c", "a", "c", "h", "e", "/">> \o sha1(artifact.url)
    ELSE <<"r", "e", "c", "i", "p", "e", "s", "/">> \o artifact.name \o <<"/">> \o artifact.version_build_folder

\* FetchDependency.__init__
FetchDependency(artifact, dependency_json) ==
    [type |-> "fetch", artifact |-> artifact,
     file_name |-> IF "file_name" \in DOMAIN dependency_json
                   THEN dependency_json.file_name
                   ELSE Drop(artifact.url, rfind(artifact.url, "/"))]

\* RecipeDependency.__init__
RecipeDependency(dependency_json) ==
    [type |-> "build", recipe_name |-> dependency_json.recipe_name,
     version |-> dependency_json.version]

\* Dependency.artifact_id
artifact_id(dependency) ==
    IF dependency.type = "fetch" THEN Id(dependency.artifact)
    ELSE <<"R", "e", "c", "i", "p", "e", ":">> \o dependency.recipe_name \o <<"/">> \o dependency.version

\* Dependency.get_mounting_path
get_mounting_path(dependency) ==
    IF dependency.type = "fetch" THEN <<"f", "e", "t", "c", "h", "/">> \o dependency.file_name
    ELSE <<"r", "e", "c", "i", "p", "e", "s", "/">> \o dependency.recipe_name \o <<"/">> \o dependency.version
         \o <<"/", "d", "a", "t", "a">>

\* artifacts[key] = value
setitem(d, key, value) == [k \in DOMAIN d \cup {key} |-> IF k = key THEN value ELSE d[k]]

\* the empty dict
NoArtifacts == [k \in {} |-> 0]

\* register_fetch_dependency once the Fetch is made: the dict takes it when
\* its id is new, the dependency takes it in any case
register_artifact(st, artifact, dependency_json) ==
    [artifacts |-> IF Id(artifact) \notin DOMAIN st.artifacts
                   THEN setitem(st.artifacts, Id(artifact), artifact)
                   ELSE st.artifacts,
     next |-> st.next + 1,
     dependencies |-> Append(st.dependencies, FetchDependency(artifact, dependency_json)),
     raises |-> FALSE]

\* register_fetch_dependency: st holds the dict, the number of objects made
\* and the dependencies of the recipe.json being read
register_fetch_dependency(st, dependency_json, fixed) ==
    IF Normalized[dependency_json.url, fixed].raises
    THEN [st EXCEPT !.raises = TRUE]
    ELSE register_artifact(st, Fetch(dependency_json, st.next, fixed), dependency_json)

\* register_recipe_dependency
register_recipe_dependency(st, dependency_json) ==
    [st EXCEPT !.dependencies = Append(@, RecipeDependency(dependency_json))]

\* the loop over recipe_json["dependencies"]
RECURSIVE register_dependencies(_, _, _)
register_dependencies(st, dependencies_json, fixed) ==
    IF dependencies_json = <<>> \/ st.raises THEN st
    ELSE register_dependencies(
             IF Head(dependencies_json).type = "fetch"
             THEN register_fetch_dependency(st, Head(dependencies_json), fixed)
             ELSE register_recipe_dependency(st, Head(dependencies_json)),
             Tail(dependencies_json), fixed)

\* jsonschema.validate(versions, versions_schema), the patterns of the
\* folder names apart
versions_valid(versions) ==
    \A i \in 1..Len(versions) :
        /\ "folder" \in DOMAIN versions[i][2]
        /\ DOMAIN versions[i][2] \subseteq {"folder", "artifact_folder"}

\* jsonschema.validate(dependency_json, dependency_types[type]["schema"])
dependency_valid(dj) ==
    \/ /\ dj.type = "fetch"
       /\ "url" \in DOMAIN dj
       /\ DOMAIN dj \subseteq {"type", "url", "file_name"}
       /\ SchemaAccepts(dj.url)
    \/ /\ dj.type = "build"
       /\ DOMAIN dj = {"type", "recipe_name", "version"}

\* jsonschema.validate(recipe_json, recipe_schema)
recipe_valid(rj) ==
    /\ DOMAIN rj = {"recipe_type", "dependencies"}
    /\ rj.recipe_type \in {"python"}
    /\ \A i \in 1..Len(rj.dependencies) : dependency_valid(rj.dependencies[i])

\* recipe = PythonRecipe(...); artifacts[recipe.id()] = recipe
register_recipe(st, recipe) ==
    [artifacts |-> setitem(st.artifacts, Id(recipe), recipe),
     next |-> st.next + 1,
     dependencies |-> <<>>,
     raises |-> FALSE]

\* the recipe of a version whose dependencies are registered
make_recipe(st, recipe_name, version_name, version_json) ==
    IF st.raises THEN st
    ELSE register_recipe(st, Recipe(recipe_name, version_name, version_json,
                                    st.dependencies, st.next))

\* a loader in which a skipped version empties the registry
read_version_forgetting(st, folder, recipe_name, version_name, version_json, fixed) ==
    LET file == folder.recipe_json[recipe_name, version_json.folder]
    IN IF ~file.exists \/ ~recipe_valid(file.json) THEN [st EXCEPT !.artifacts = NoArtifacts]
       ELSE make_recipe(register_dependencies([st EXCEPT !.dependencies = <<>>],
                                              file.json.dependencies, fixed),
                        recipe_name, version_name, version_json)

\* the body of the loop over versions.items() for one version
read_version(st, folder, recipe_name, version_name, version_json, fixed) ==
    LET file == folder.recipe_json[recipe_name, version_json.folder]
    IN IF ~file.exists \/ ~recipe_valid(file.json) THEN st
       ELSE make_recipe(register_dependencies([st EXCEPT !.dependencies = <<>>],
                                              file.json.dependencies, fixed),
                        recipe_name, version_name, version_json)

\* the loop over versions.items()
RECURSIVE read_versions(_, _, _, _, _)
read_versions(st, folder, recipe_name, versions, fixed) ==
    IF versions = <<>> \/ st.raises THEN st
    ELSE read_versions(
             read_version(st, folder, recipe_name, Head(versions)[1],
                          Head(versions)[2], fixed),
             folder, recipe_name, Tail(versions), fixed)

\* the loop over os.listdir(recipes_folder)
RECURSIVE read_items(_, _, _, _)
read_items(st, folder, items, fixed) ==
    IF items = <<>> \/ st.raises THEN st
    ELSE LET file == folder.versions[Head(items)]
         IN read_items(
                IF ~file.exists \/ ~versions_valid(file.json) THEN st
                ELSE read_versions(st, folder, Head(items), file.json, fixed),
                folder, Tail(items), fixed)

\* read_recipes(recipes_folder): the dict it returns, unless the ValueError
\* of a normalize_url ends it
read_recipes_from(folder, fixed) ==
    read_items([artifacts |-> NoArtifacts, next |-> 1, dependencies |-> <<>>,
                raises |-> FALSE],
               folder, folder.listdir, fixed)

\* the recipes folders of the model: recipes a and b; a has up to
\* MaxVersions versions in the folders v1 and v2, b has version 1 in v1
RecipeNames == {<<"a">>, <<"b">>}

FolderNames == {<<"v", "1">>, <<"v", "2">>}

Listings == {<< <<"a">>, <<"b">> >>, << <<"b">>, <<"a">> >>}

\* an entry of versions.json that names its folder and nothing else
PlainEntries == {[folder |-> f] : f \in FolderNames}

\* the entries the first version tag can have: also one with "folder_alias",
\* one with "artifact_folder", and one without "folder"
FirstEntries ==
    PlainEntries \cup
    {[folder |-> <<"v", "1">>, folder_alias |-> <<"o", "u", "t">>],
     [folder |-> <<"v", "1">>, artifact_folder |-> <<"o", "u", "t">>],
     [artifact_folder |-> <<"o", "u", "t">>]}

\* versions.json: the version tags "1", "2", ... in this order
VersionsJsons ==
    UNION {{[i \in 1..n |-> <<str(i), e[i]>>] :
              e \in {g \in [1..n -> FirstEntries] : \A i \in 2..n : g[i] \in PlainEntries}} :
             n \in 1..MaxVersions}

NoFile == [exists |-> FALSE, json |-> <<>>]

VersionsFiles == {NoFile} \cup {[exists |-> TRUE, json |-> v] : v \in VersionsJsons}

\* the entries of "dependencies"
DependencyJsons ==
    {[type |-> "fetch", url |-> u] : u \in DeclaredUrls}
    \cup {[type |-> "fetch", url |-> <<"h", "t", "t", "p", ":", "/", "/", "h", ".", "i", "o", ":", "8", "0", "/", "a">>,
           file_name |-> <<"f", ".", "c", "s", "v">>]}
    \cup {[type |-> "build", recipe_name |-> <<"b">>, version |-> <<"1">>]}

RECURSIVE SeqsUpTo(_, _)
SeqsUpTo(S, n) ==
    IF n = 0 THEN {<<>>}
    ELSE LET shorter == SeqsUpTo(S, n - 1)
         IN shorter \cup {Append(s, x) : s \in shorter, x \in S}

RecipeJson(dependencies) == [recipe_type |-> "python", dependencies |-> dependencies]

NoRecipeJson == [exists |-> FALSE, json |-> RecipeJson(<<>>)]

\* a recipe.json the schema rejects: its second dependency has no "url"
InvalidRecipeFile ==
    [exists |-> TRUE,
     json |-> RecipeJson(<<[type |-> "fetch", url |-> <<"h", "t", "t", "p", ":", "/", "/", "H", ".", "i", "o", "/", "a", "/">>],
                           [type |-> "fetch"]>>)]

\* recipe.json of a's folder v1: up to MaxFetches dependencies
RichRecipeFiles ==
    {NoRecipeJson, InvalidRecipeFile} \cup
    {[exists |-> TRUE, json |-> RecipeJson(d)] : d \in SeqsUpTo(DependencyJsons, MaxFetches)}

\* recipe.json of recipe b: no dependency, or one fetch
PlainRecipeFiles ==
    {NoRecipeJson,
     [exists |-> TRUE, json |-> RecipeJson(<<>>)],
     [exists |-> TRUE, json |-> RecipeJson(<<[type |-> "fetch", url |-> <<"h", "t", "t", "p", ":", "/", "/", "H", ".", "i", "o", "/", "a", "/">>]>>)]}

\* recipe.json of a's folder v2: also one the schema rejects, and one whose
\* fetch has a port that is no number
OtherRecipeFiles ==
    PlainRecipeFiles \cup
    {InvalidRecipeFile,
     [exists |-> TRUE, json |-> RecipeJson(<<[type |-> "fetch", url |-> BadPortUrl]>>)]}

RecipesFolders ==
    {[listdir |-> l,
      versions |-> [n \in RecipeNames |->
                      IF n = <<"a">> THEN va
                      ELSE [exists |-> TRUE, json |-> << <<str(1), [folder |-> <<"v", "1">>]>> >>]],
      recipe_json |-> [n \in RecipeNames, f \in FolderNames |->
                         IF n = <<"a">> /\ f = <<"v", "1">> THEN r1
                         ELSE IF n = <<"a">> THEN r2
                         ELSE IF f = <<"v", "1">> THEN r3
                         ELSE NoRecipeJson]] :
        l \in Listings, va \in VersionsFiles, r1 \in RichRecipeFiles,
        r2 \in OtherRecipeFiles, r3 \in PlainRecipeFiles}

\* a recipes folder, before cli.build calls read_recipes
InitLoad ==
    /\ recipes_folder \in RecipesFolders
    /\ unsplit_fixed \in BOOLEAN
    /\ loaded = NoArtifacts
    /\ container_run = NoContainer
    /\ pc = "read_recipes"
    /\ dep_url = <<>>
    /\ fetch_url = NoResult
    /\ again = NoResult
    /\ InitBuildIdle
    /\ InitCmpIdle

\* artifacts = read_recipes(recipes_folder)
ReadRecipes ==
    /\ pc = "read_recipes"
    /\ \E st \in {read_recipes_from(recipes_folder, unsplit_fixed)} :
        /\ loaded' = IF st.raises THEN NoArtifacts ELSE st.artifacts
        /\ pc' = IF st.raises THEN "ValueError" ELSE "loaded"
    /\ UNCHANGED <<recipes_folder, container_run, schedVarsButPc, cmpVars, urlVars>>

\* PythonRecipe.build: the loop over self.dependencies that fills volumes
RECURSIVE add_dependencies(_, _, _)
add_dependencies(volumes, dependencies, registry) ==
    IF dependencies = <<>> THEN volumes
    ELSE add_dependencies(
             setitem(volumes,
                     get_build_path(registry[artifact_id(Head(dependencies))]),
                     [bind |-> <<"/", "a", "p", "p", "/", "d", "e", "p", "e", "n", "d", "e", "n", "c", "i", "e", "s", "/">>
                                 \o get_mounting_path(Head(dependencies)),
                      mode |-> "ro"]),
             Tail(dependencies), registry)

\* PythonRecipe.build: volumes[build_path] and volumes[data_path]
own_volumes(build_path) ==
    setitem(setitem(NoArtifacts, build_path,
                    [bind |-> <<"/", "a", "p", "p", "/", "r", "e", "c", "i", "p", "e">>, mode |-> "ro"]),
            build_path \o <<"/", "d", "a", "t", "a">>,
            [bind |-> <<"/", "a", "p", "p", "/", "d", "a", "t", "a">>, mode |-> "rw"])

\* PythonRecipe.build: the volumes handed to client.containers.run
volumes_of(recipe, registry) ==
    add_dependencies(own_volumes(get_build_path(recipe)), recipe.dependencies, registry)

\* build_all builds a recipe of the registry whose dependencies are all
\* keys of it: its container is run with the volumes of its build
RunContainer(k) ==
    /\ pc = "loaded"
    /\ k \in DOMAIN loaded
    /\ loaded[k].kind = "Recipe"
    /\ \A i \in 1..Len(loaded[k].dependencies) :
           artifact_id(loaded[k].dependencies[i]) \in DOMAIN loaded
    /\ container_run' = [recipe |-> k, volumes |-> volumes_of(loaded[k], loaded)]
    /\ pc' = "run"
    /\ UNCHANGED <<recipes_folder, loaded, schedVarsButPc, cmpVars, urlVars>>

\* the ids a recipes folder of the model can register a recipe at
LoadableRecipes ==
    {<<"R", "e", "c", "i", "p", "e", ":">> \o n \o <<"/">> \o str(i) :
       n \in RecipeNames, i \in 1..MaxVersions}

NextLoad == ReadRecipes \/ \E k \in LoadableRecipes : RunContainer(k)

SpecLoad == InitLoad /\ [][NextLoad]_vars

-----------------------------------------------------------------------------
(* Properties of the scheduler                                              *)

RegisteredRecipes == {r \in artifacts : IsRecipe(r)}

\* C1: a recipe whose build was invoked has no dependency in
\* failed_artifacts_ids, and a recipe that is done and has a failed
\* dependency is itself in failed_artifacts_ids without having been built.
C1_BuildOnlyWithoutFailedDependency ==
    \A r \in RegisteredRecipes :
        /\ r \in invoked => deps[r] \cap failed_artifacts_ids = {}
        /\ (r \in finished /\ deps[r] \cap failed_artifacts_ids # {})
              => (r \in failed_artifacts_ids /\ r \notin invoked)

\* a recipe was skipped for a failed dependency
C1_Witness ==
    \E r \in RegisteredRecipes :
        /\ r \in finished
        /\ deps[r] \cap failed_artifacts_ids # {}
        /\ r \in failed_artifacts_ids
        /\ r \notin invoked

\* C2: in every step that starts an artifact (its build is invoked, or it is
\* classified as failed), everything it depends on, directly or transitively,
\* was already marked done before the step, and whatever is marked done has
\* been built or classified.
C2_StartsAfterDependenciesCompleted ==
    [][\A id \in Ids :
         (id \in (invoked' \cup failed_artifacts_ids')
            /\ id \notin (invoked \cup failed_artifacts_ids))
         => /\ TransitiveDeps(id) \subseteq finished
            /\ finished \subseteq invoked \cup failed_artifacts_ids]_vars

\* a recipe was built after a dependency of one of its dependencies
C2_Witness ==
    \E r \in RegisteredRecipes \cap invoked :
        \E d \in deps[r] : \E d2 \in Predecessors(d) :
            /\ d2 \notin deps[r]
            /\ {d, d2} \subseteq finished

\* C3: when build_all has returned, every artifact whose build raised is in
\* failed_artifacts_ids, and so is every recipe that depends on it directly
\* or through other recipes, none of which was built.
C3_FailurePropagatesTransitively ==
    pc = "done" =>
        \A x \in raised :
            /\ x \in failed_artifacts_ids
            /\ \A r \in RegisteredRecipes :
                 x \in TransitiveDeps(r)
                    => (r \in failed_artifacts_ids /\ r \notin invoked)

\* the fetch failed, a recipe depends on it, another one on that recipe only
C3_Witness ==
    /\ pc = "done"
    /\ \E u \in raised \cap Fetches : \E a, b \in RegisteredRecipes :
         /\ u \in deps[a]
         /\ deps[b] = {a}
         /\ {u, a, b} \subseteq failed_artifacts_ids
         /\ {a, b} \cap invoked = {}

\* every dependency of every recipe is a key of the registry
AllResolve == \A r \in RegisteredRecipes : deps[r] \subseteq artifacts

\* C4: when build_all returns for an acyclic registry whose dependencies all
\* resolve, every artifact of the registry was built or is in
\* failed_artifacts_ids.
C4_EveryArtifactProcessed ==
    (pc = "done" /\ AllResolve /\ ~HasCycle) =>
        \A a \in artifacts : a \in invoked \cup failed_artifacts_ids

\* C27: for an acyclic registry whose dependencies all resolve, build_all
\* is not ended by an exception, no id is handed out by get_ready() again
\* once it was, builds are invoked and done marks set only for ids handed
\* out, and when build_all returns every artifact of the registry has been
\* handed out and marked done.
C27_EveryArtifactReadyOnce ==
    (AllResolve /\ ~HasCycle) =>
        /\ pc \notin {"CycleError", "KeyError"}
        /\ ready \subseteq passedout \ finished
        /\ get_ready \cap passedout = {}
        /\ invoked \subseteq finished
        /\ finished \subseteq passedout
        /\ pc = "done" => (passedout = finished /\ artifacts \subseteq finished)

\* C5: a recipe whose container ended with a non-zero exit status is in
\* failed_artifacts_ids.
C5_NonZeroExitFails ==
    \A r \in nonzero_exit : r \in failed_artifacts_ids

-----------------------------------------------------------------------------
(* Properties of the builds and of the disk                                 *)

\* the build tree has every path of the source tree, of the same kind, and
\* every file both have holds the same bytes
Mirrors(source, build) ==
    \A p \in Paths(source) :
        /\ At(build, p).k = At(source, p).k
        /\ IsFile(At(source, p)) => At(build, p).c = At(source, p).c

\* C6: a recipe whose container failed in the previous run and whose build is
\* invoked in this run with override off has its source tree copied again
\* and its container run again.
C6_FailedBuildRetried ==
    \A r \in RegisteredRecipes :
        (run > 1 /\ ~override /\ r \in prev.raised /\ r \in invoked)
            => (r \in copied /\ r \in sandboxed)

\* C7: a build invoked with override off on a build path that exists and
\* mirrors the source leaves the build path as it is, runs no container,
\* copies and removes nothing, and succeeds.
C7_UnchangedBuildIsNoOp ==
    [][\A r \in Recipes :
         (/\ r \in invoked' /\ r \notin invoked
          /\ ~override
          /\ Exists(build_tree[r])
          /\ Mirrors(source_tree(r), build_tree[r]))
         => /\ build_tree'[r] = build_tree[r]
            /\ r \notin sandboxed' \cup copied' \cup removed'
            /\ r \notin raised' \cup failed_artifacts_ids']_vars

\* a recipe built in the previous run, with outputs in data/, was skipped
C7_Witness ==
    \E r \in RegisteredRecipes \cap invoked :
        /\ run > 1
        /\ ~override
        /\ Exists(prev.build_tree[r])
        /\ Mirrors(source_tree(r), prev.build_tree[r])
        /\ <<"data", "out.txt">> \in Paths(prev.build_tree[r])
        /\ build_tree[r] = prev.build_tree[r]
        /\ r \notin sandboxed \cup copied

\* the files under the build folder
FilesOf(trees, files) ==
    [recipes |-> [r \in Recipes |-> IF Exists(trees[r]) THEN Paths(trees[r]) ELSE {<<"absent">>}],
     fetch_cache |-> {f \in Fetches : files[f] # 0}]

\* C8: when a run with override off follows a completed run with override off
\* and the servers answer as they did, it leaves the same files under the
\* build folder, runs no container and downloads no fetch that was cached.
C8_SecondRunIdempotent ==
    (run > 1 /\ pc = "done" /\ prev.pc = "done" /\ ~override /\ ~prev.override
       /\ netOK = prev.netOK)
        => /\ FilesOf(build_tree, cache) = FilesOf(prev.build_tree, prev.cache)
           /\ sandboxed = {}
           /\ \A f \in downloaded : prev.cache[f] = 0

\* some path of the source is absent from the build, or a file both have differs
SourceChanged(source, build) ==
    \E p \in Paths(source) :
        \/ ~Exists(At(build, p))
        \/ /\ IsFile(At(source, p))
           /\ IsFile(At(build, p))
           /\ At(source, p).c # At(build, p).c

\* C9: the change detector reports "changed" exactly when some path of the
\* source is absent from the build or some file present in both differs;
\* what is only in the build never counts.
C9_DetectorExact ==
    cmp_result # "idle" =>
        (cmp_result = "changed" <=> SourceChanged(cmp_left, cmp_right))

\* C10: with override on, every recipe whose build is invoked has its build
\* path removed if it existed, its source tree copied and its container run,
\* and every fetch whose build is invoked is downloaded.
C10_OverrideForcesWork ==
    override =>
        /\ \A r \in RegisteredRecipes \cap invoked :
             /\ r \in copied
             /\ r \in sandboxed
             /\ Exists(prev.build_tree[r]) => r \in removed
        /\ \A f \in (artifacts \ RegisteredRecipes) \cap invoked : f \in downloaded

\* an unchanged recipe was rebuilt and a cached fetch downloaded again
C10_Witness ==
    /\ override
    /\ \E r \in RegisteredRecipes \cap invoked :
         /\ Exists(prev.build_tree[r])
         /\ ~left_files_changed(source_tree(r), prev.build_tree[r])
         /\ r \in removed \cap copied \cap sandboxed
    /\ \E f \in downloaded : prev.cache[f] # 0

\* C26: whether the container of a recipe whose build is invoked runs is
\* decided by the override flag, the recipe's build path and its source
\* tree alone: with override off and a build path that shows no change of
\* the source it does not run, whatever was built before it in the run.
C26_RebuildDecisionIsLocal ==
    \A r \in RegisteredRecipes \cap invoked :
        r \in sandboxed <=>
            \/ override
            \/ ~Exists(prev.build_tree[r])
            \/ left_files_changed(source_tree(r), prev.build_tree[r])

\* with override off a recipe was left as it is although the container of
\* one of its dependencies ran, or a fetch of its was downloaded, in this
\* run and did not fail
C26_Witness ==
    /\ ~override
    /\ \E r \in RegisteredRecipes \cap invoked :
         /\ Exists(prev.build_tree[r])
         /\ r \notin sandboxed
         /\ build_tree[r] = prev.build_tree[r]
         /\ \E d \in deps[r] :
              /\ d \in sandboxed \cup downloaded
              /\ d \notin failed_artifacts_ids

\* C29: the step that skips a recipe for a failed dependency leaves every
\* build path and cache file as it was, copies and removes nothing, and
\* changes only failed_artifacts_ids and the graph's done marks, each by the
\* recipe's id (and logs the warning).
C29_SkipLeavesDiskAlone ==
    [][\A r \in Recipes :
         (r \in finished' \ finished /\ r \notin invoked') =>
             /\ build_tree' = build_tree
             /\ cache' = cache
             /\ UNCHANGED <<invoked, raised, copied, removed, sandboxed,
                            nonzero_exit, downloaded>>
             /\ failed_artifacts_ids' = failed_artifacts_ids \cup {r}
             /\ finished' = finished \cup {r}
             /\ UNCHANGED <<artifacts, deps, netOK, override, run, pc, passedout, prev>>]_vars

\* a recipe with a build path and outputs from the run before was skipped,
\* and the build path is as that run left it
C29_Witness ==
    \E r \in RegisteredRecipes :
        /\ run > 1
        /\ r \in (finished \cap failed_artifacts_ids) \ invoked
        /\ Exists(prev.build_tree[r])
        /\ <<"data", "out.txt">> \in Paths(prev.build_tree[r])
        /\ build_tree[r] = prev.build_tree[r]

-----------------------------------------------------------------------------
(* Properties of the fetch cache                                            *)

RegisteredFetches == artifacts \ RegisteredRecipes

\* C11: a Fetch.build invoked with override off while a cache file exists
\* succeeds, downloads nothing and leaves the cache file as it is.
C11_CacheWriteOnce ==
    [][\A f \in Fetches :
         (f \in invoked' /\ f \notin invoked /\ ~override /\ cache[f] # 0)
         => /\ cache'[f] = cache[f]
            /\ f \notin downloaded'
            /\ f \notin raised' \cup failed_artifacts_ids']_vars

\* a fetch downloaded by an earlier run was a cache hit in this one
C11_Witness ==
    \E f \in RegisteredFetches \cap invoked :
        /\ run > 1
        /\ ~override
        /\ prev.cache[f] # 0
        /\ cache[f] = prev.cache[f]
        /\ cache[f] < run
        /\ f \notin downloaded

\* C12: a fetch whose download failed has no file at its cache path and is
\* in failed_artifacts_ids, and a fetch whose download failed in the
\* previous run is downloaded again when its build is invoked.
C12_FailedDownloadLeavesNoFile ==
    /\ \A f \in raised \cap Fetches :
         /\ cache[f] = 0
         /\ f \in failed_artifacts_ids
    /\ \A f \in invoked \cap Fetches :
         (run > 1 /\ f \in prev.raised) => f \in downloaded

\* the download failed again in the run after a failed one
C12_Witness ==
    \E f \in raised \cap Fetches :
        /\ run > 1
        /\ f \in prev.raised
        /\ f \in downloaded
        /\ cache[f] = 0

\* C28: when a fetch whose cache file exists from an earlier run is built
\* with override on and its download fails, no file is left at the cache
\* path, the fetch is in failed_artifacts_ids, and no recipe that declares it
\* is built in this run: each is skipped into failed_artifacts_ids.
C28_FailedRefetchDestroysCache ==
    \A f \in raised \cap Fetches :
        (run > 1 /\ override /\ prev.cache[f] # 0) =>
            /\ cache[f] = 0
            /\ f \in failed_artifacts_ids
            /\ \A r \in RegisteredRecipes :
                 f \in deps[r] =>
                     /\ r \notin invoked
                     /\ r \in finished => r \in failed_artifacts_ids
                     /\ pc = "done" => r \in finished

\* the download of a cached fetch failed under override, and build_all
\* returned with a recipe that declares it skipped, its build path from the
\* earlier run still there
C28_Witness ==
    /\ pc = "done"
    /\ override
    /\ \E f \in raised \cap Fetches :
         /\ run > 1
         /\ prev.cache[f] # 0
         /\ cache[f] = 0
         /\ \E r \in RegisteredRecipes :
              /\ f \in deps[r]
              /\ r \in failed_artifacts_ids \ invoked
              /\ Exists(prev.build_tree[r])

-----------------------------------------------------------------------------
(* Properties of the registry and of the walk of the graph                  *)

RECURSIVE DependsOn(_, _, _)
DependsOn(x, y, n) ==
    n > 0 /\ \E d \in Predecessors(x) : d = y \/ DependsOn(d, y, n - 1)

\* the recipe depends on itself through its dependencies
OnCycle(id) == DependsOn(id, id, Cardinality(Recipes))

\* C15: when some recipe lies on a dependency cycle the run never gets past
\* prepare(), which ends it with CycleError, and nothing is built: a run
\* that is past prepare() or has built something has no recipe on a cycle.
C15_CycleIsFatal ==
    (pc \notin {"prepare", "CycleError"} \/ invoked # {}) =>
        \A r \in RegisteredRecipes : ~OnCycle(r)

\* the run ended with CycleError on a cycle through two recipes or more
C15_Witness ==
    /\ pc = "CycleError"
    /\ \E r \in RegisteredRecipes : OnCycle(r) /\ r \notin deps[r]

\* C17: a run is only cut short by a cycle or by an id the registry lacks,
\* never by a build that raised; and when build_all has returned, every
\* artifact of the graph that does not depend, directly or transitively, on
\* an artifact whose build raised had its own build invoked.
C17_FailuresStayLocal ==
    /\ pc = "CycleError" => \E r \in Ids : OnCycle(r)
    /\ pc = "KeyError" => ~AllResolve
    /\ pc = "done" =>
         \A y \in artifacts \cap compute_dependencies_graph :
             TransitiveDeps(y) \cap raised = {} => y \in invoked

\* a fetch failed and its dependent was skipped, while a recipe that depends
\* on another recipe only was built, and build_all returned
C17_Witness ==
    /\ pc = "done"
    /\ \E x \in raised \cap Fetches : \E y, z \in RegisteredRecipes :
         /\ x \in deps[z]
         /\ z \in failed_artifacts_ids \ invoked
         /\ deps[y] # {}
         /\ x \notin TransitiveDeps(y)
         /\ y \in invoked \ failed_artifacts_ids

-----------------------------------------------------------------------------
(* Properties of the dispatch of builds and of the reporting                *)

\* C18: never more than num_jobs builds are in progress, and a wave of two
\* or more ready artifacts without a failed dependency, under num_jobs >= 2,
\* has had min(size of the wave, num_jobs) builds in flight at once by the
\* time the wave has been worked off.
C18_NumJobsBoundsAndFillsWorkers ==
    /\ Cardinality(in_flight) <= num_jobs
    /\ (ready = {} /\ num_jobs >= 2 /\ Cardinality(wave) >= 2) =>
           peak >= Min(Cardinality(wave), num_jobs)

\* C19: the step in which build_all returns emits, for every id of
\* failed_artifacts_ids, a line of a final report naming that id.
C19_FinalReportListsFailures ==
    [][(pc = "while" /\ pc' = "done") =>
          \A id \in failed_artifacts_ids' : \E m \in log' \ log : m.id = id]_vars

-----------------------------------------------------------------------------
(* Properties of normalize_url                                              *)

\* C20: normalizing the URL of a Fetch once more gives the same URL, and
\* never fails.
C20_NormalizeIdempotent == pc = "again" => again = fetch_url

\* the port a scheme implies
DefaultPort(scheme) == IF scheme = <<"h", "t", "t", "p">> THEN 80 ELSE 443

\* the port number written in a URL, 0 when it has none
DeclaredPort(u) == int(hostinfo(urlparse(u).netloc).port)

\* C21: the normalized URL leaves out the port only when it is the default
\* port of the URL's own scheme; any other port written in the URL is kept.
C21_OnlyOwnDefaultPortDropped ==
    pc = "Fetch" =>
        DeclaredPort(fetch_url.url) =
            IF DeclaredPort(dep_url) = DefaultPort(urlparse(dep_url).scheme)
            THEN 0
            ELSE DeclaredPort(dep_url)

-----------------------------------------------------------------------------
(* Properties of the loader                                                 *)

LoadedRecipes == {k \in DOMAIN loaded : loaded[k].kind = "Recipe"}

LoadedFetches == {k \in DOMAIN loaded : loaded[k].kind = "Fetch"}

\* the fetch dependencies of the loaded recipes: recipe id and position
FetchSlots ==
    {s \in UNION {{<<k, i>> : i \in 1..Len(loaded[k].dependencies)} : k \in LoadedRecipes} :
        loaded[s[1]].dependencies[s[2]].type = "fetch"}

DependencyAt(s) == loaded[s[1]].dependencies[s[2]]

\* C13: two declared fetch dependencies whose URLs normalize to the same
\* string have one Fetch in the registry, the same id, the same cache path,
\* and both hold the very Fetch object the registry holds.
C13_FetchesShared ==
    pc = "loaded" =>
        \A s1, s2 \in FetchSlots :
            (s1 # s2 /\ DependencyAt(s1).artifact.url = DependencyAt(s2).artifact.url) =>
                /\ Cardinality({k \in LoadedFetches :
                                  loaded[k].url = DependencyAt(s1).artifact.url}) = 1
                /\ artifact_id(DependencyAt(s1)) = artifact_id(DependencyAt(s2))
                /\ get_build_path(DependencyAt(s1).artifact)
                     = get_build_path(DependencyAt(s2).artifact)
                /\ DependencyAt(s1).artifact.obj = DependencyAt(s2).artifact.obj
                /\ loaded[artifact_id(DependencyAt(s1))].obj = DependencyAt(s1).artifact.obj

\* C16: two recipes of the registry with different ids have different
\* build paths.
C16_BuildPathsDistinct ==
    pc = "loaded" =>
        \A k1, k2 \in LoadedRecipes :
            k1 # k2 => get_build_path(loaded[k1]) # get_build_path(loaded[k2])

\* versions.json as the specification describes it: every entry has
\* "folder", and besides it at most "folder_alias"
DescribedVersions(versions) ==
    \A i \in 1..Len(versions) :
        /\ "folder" \in DOMAIN versions[i][2]
        /\ DOMAIN versions[i][2] \subseteq {"folder", "folder_alias"}

\* the id of version tag of the recipe name
RecipeId(name, tag) == <<"R", "e", "c", "i", "p", "e", ":">> \o name \o <<"/">> \o tag

\* the recipe.json of entry i of the versions.json of name
RecipeFileOf(name, i) ==
    recipes_folder.recipe_json[name, recipes_folder.versions[name].json[i][2].folder]

\* C22: when every entry of a versions.json has "folder" and at most
\* "folder_alias" besides, each of its versions with a valid recipe.json is
\* registered, with the build path recipes/<name>/<folder_alias> when the
\* alias is declared and recipes/<name>/<folder> otherwise.
C22_FolderAliasAccepted ==
    pc = "loaded" =>
        \A name \in RecipeNames :
            (recipes_folder.versions[name].exists
               /\ DescribedVersions(recipes_folder.versions[name].json)) =>
                \A i \in 1..Len(recipes_folder.versions[name].json) :
                    (RecipeFileOf(name, i).exists /\ recipe_valid(RecipeFileOf(name, i).json)) =>
                        LET tag == recipes_folder.versions[name].json[i][1]
                            entry == recipes_folder.versions[name].json[i][2]
                        IN /\ RecipeId(name, tag) \in DOMAIN loaded
                           /\ get_build_path(loaded[RecipeId(name, tag)]) =
                                  <<"r", "e", "c", "i", "p", "e", "s", "/">> \o name \o <<"/">> \o
                                  (IF "folder_alias" \in DOMAIN entry
                                   THEN entry.folder_alias ELSE entry.folder)

\* the entries of the versions.json of name whose version the loader keeps:
\* versions.json is there and valid, recipe.json is there and valid
KeptVersions(name) ==
    IF recipes_folder.versions[name].exists
         /\ versions_valid(recipes_folder.versions[name].json)
    THEN {i \in 1..Len(recipes_folder.versions[name].json) :
            RecipeFileOf(name, i).exists /\ recipe_valid(RecipeFileOf(name, i).json)}
    ELSE {}

\* the entries of "dependencies" of the recipe.json of entry i
DeclaredBy(name, i) ==
    {RecipeFileOf(name, i).json.dependencies[j] :
       j \in 1..Len(RecipeFileOf(name, i).json.dependencies)}

\* the "url" values the recipe.json files of the kept versions declare
KeptUrls ==
    UNION {UNION {{d.url : d \in {x \in DeclaredBy(name, i) : x.type = "fetch"}} :
                    i \in KeptVersions(name)} : name \in RecipeNames}

\* C23: the registry holds exactly the versions whose versions.json and
\* recipe.json are there and valid, and exactly the fetches those versions
\* declare; a missing or invalid file never ends the loading, which only the
\* ValueError of a kept version's URL does.
C23_SkipGranularity ==
    /\ pc = "loaded" =>
          /\ LoadedRecipes =
                UNION {{RecipeId(name, recipes_folder.versions[name].json[i][1]) :
                          i \in KeptVersions(name)} : name \in RecipeNames}
          /\ {loaded[k].url : k \in LoadedFetches} =
                {Normalized[u, unsplit_fixed].url : u \in KeptUrls}
          /\ \A k \in LoadedFetches : k = Id(loaded[k])
    /\ pc = "ValueError" => BadPortUrl \in KeptUrls

\* recipe a has the versions 1 and 2; the recipe.json of version 1 declares a
\* fetch and is invalid, so version 2 and recipe b are registered and no
\* fetch is
C23_Witness ==
    /\ pc = "loaded"
    /\ Len(recipes_folder.versions[<<"a">>].json) = 2
    /\ versions_valid(recipes_folder.versions[<<"a">>].json)
    /\ RecipeFileOf(<<"a">>, 1) = InvalidRecipeFile
    /\ RecipeFileOf(<<"a">>, 2) # InvalidRecipeFile
    /\ LoadedRecipes = {RecipeId(<<"a">>, <<"2">>), RecipeId(<<"b">>, <<"1">>)}
    /\ LoadedFetches = {}

-----------------------------------------------------------------------------
(* Properties of the mounts                                                 *)

\* the bindings of volumes below /app/dependencies/
DependencyBindings(volumes) ==
    {h \in DOMAIN volumes :
       startswith(volumes[h].bind,
                  <<"/", "a", "p", "p", "/", "d", "e", "p", "e", "n", "d", "e", "n", "c", "i", "e", "s", "/">>)}

\* volumes binds the host path to the path in the container, in the mode
Binds(volumes, host, bind, mode) ==
    host \in DOMAIN volumes /\ volumes[host] = [bind |-> bind, mode |-> mode]

\* C24: the volumes of a recipe's container bind /app/recipe to its build
\* path read-only, /app/data to <build_path>/data read-write, and for each
\* declared dependency /app/dependencies/<mount subpath> to the build path of
\* the dependency's artifact read-only; there are as many dependency
\* bindings as declared dependencies.
C24_OneBindingPerDependency ==
    pc = "run" =>
        LET recipe == loaded[container_run.recipe]
            volumes == container_run.volumes
        IN /\ Binds(volumes, get_build_path(recipe),
                    <<"/", "a", "p", "p", "/", "r", "e", "c", "i", "p", "e">>, "ro")
           /\ Binds(volumes, get_build_path(recipe) \o <<"/", "d", "a", "t", "a">>,
                    <<"/", "a", "p", "p", "/", "d", "a", "t", "a">>, "rw")
           /\ \A i \in 1..Len(recipe.dependencies) :
                 Binds(volumes,
                       get_build_path(loaded[artifact_id(recipe.dependencies[i])]),
                       <<"/", "a", "p", "p", "/", "d", "e", "p", "e", "n", "d", "e", "n", "c", "i", "e", "s", "/">>
                         \o get_mounting_path(recipe.dependencies[i]),
                       "ro")
           /\ Cardinality(DependencyBindings(volumes)) = Len(recipe.dependencies)

\* the final segment of the path component of a URL
FinalSegment(url) == Drop(urlparse(url).path, rfind(urlparse(url).path, "/"))

\* the entry of "dependencies" that dependency i of the loaded recipe was made from
DeclarationOf(k, i) ==
    recipes_folder.recipe_json[loaded[k].name, loaded[k].version_source_folder]
        .json.dependencies[i]

\* C25: the mount subpath of a fetch dependency is fetch/<file_name> when
\* file_name is declared, and otherwise fetch/<s> with s the final segment
\* of the path of the normalized URL, without the query string.
C25_MountSubpathIsPathSegment ==
    pc = "loaded" =>
        \A s \in FetchSlots :
            get_mounting_path(DependencyAt(s)) =
                <<"f", "e", "t", "c", "h", "/">> \o
                (IF "file_name" \in DOMAIN DeclarationOf(s[1], s[2])
                 THEN DeclarationOf(s[1], s[2]).file_name
                 ELSE FinalSegment(DependencyAt(s).artifact.url))

====
